---- MODULE Spec2Model ----
(***************************************************************************)
(* A model of package httphandler (src/httphandler.go): the Response       *)
(* value, the Presenter implementations DefaultResp, Dispatcher,           *)
(* PresenterFunc and ErrHandler, and the http.Handler Writer together with *)
(* the http.ResponseWriter it writes to.                                   *)
(*                                                                         *)
(* A configured component (sut) is built once and then called any number   *)
(* of times.  A Presenter call is one atomic action; Writer.ServeHTTP is   *)
(* modelled statement by statement because its effects on the             *)
(* ResponseWriter are observable one at a time.                            *)
(***************************************************************************)
EXTENDS Integers, Sequences, FiniteSets, TLC

\* ------------------------------------------------------------------------
\* Bounds of the model
\* ------------------------------------------------------------------------

\* Largest number of header names in one Response.
MaxHeaderNames == 2

\* Largest number of values under one header name of a Response.
MaxValues == 3

\* ------------------------------------------------------------------------
\* Values
\* ------------------------------------------------------------------------

\* Go's nil: an unset interface, func or error.
Nil == "nil"

\* A Presenter or ErrPresenter field left unset (a nil interface).
NilPresenter == [kind |-> "nil"]

\* The status Writer substitutes for StatusCode 0.
StatusOK == 200

\* r.Method of the requests served.
Methods == {"GET", "POST", "get"}

\* r.URL of the requests served.
URLs == {"/a"}

\* *http.Request, as far as the package and its producers read it.
Requests == [Method : Methods, URL : URLs]

\* Values an error can have (errors.New(...)).
Errors == {"boom", "bad"}

\* Bytes of header names: letters in both cases, the hyphen, and the space,
\* which is not a valid header field byte.
LowerOf == [c \in {"x", "X", "m", "M", "v", "V", "-", " "} |->
              CASE c = "X" -> "x" [] c = "M" -> "m" [] c = "V" -> "v" [] OTHER -> c]

UpperOf == [c \in {"x", "X", "m", "M", "v", "V", "-", " "} |->
              CASE c = "x" -> "X" [] c = "m" -> "M" [] c = "v" -> "V" [] OTHER -> c]

\* Bytes allowed in a header field name.
TokenBytes == {"x", "X", "m", "M", "v", "V", "-"}

\* textproto.CanonicalMIMEHeaderKey, applied by http.Header.Add: the first
\* letter and every letter after a hyphen in upper case, the others in lower
\* case; a key with a space or another invalid byte is returned unchanged.
CanonicalMIMEHeaderKey(s) ==
  IF \E i \in 1..Len(s) : s[i] \notin TokenBytes
    THEN s
    ELSE [i \in 1..Len(s) |->
            IF i = 1 \/ s[i - 1] = "-" THEN UpperOf[s[i]] ELSE LowerOf[s[i]]]

\* Header names a producer may use.
HeaderNames == {<<"x">>, <<"X">>, <<"m", "-", "v">>, <<"x", " ">>}

\* Header values, in the order a value list is built from them.
AllValues == <<"a", "b", "c", "d">>

\* The value lists of a header name: []string of length 0..MaxValues.
HeaderValueLists == {SubSeq(AllValues, 1, n) : n \in 0..MaxValues}

\* An http.Header with no entry (a nil map ranges the same way).
NoHeaders == [k \in {} |-> <<>>]

\* http.Header values a Response can carry: map[string][]string.
HeaderMaps ==
  UNION {[S -> HeaderValueLists] :
           S \in {T \in SUBSET HeaderNames : Cardinality(T) <= MaxHeaderNames}}

\* Body bytes of a Response.
Bodies == {<<>>, <<"h", "i">>}

\* Mutant of HeaderAdd: http.Header.Set, which replaces the values of key.
HeaderSet(H, key, value) ==
  LET k == CanonicalMIMEHeaderKey(key) IN
  [x \in DOMAIN H \cup {k} |-> IF x = k THEN <<value>> ELSE H[x]]

\* Mutant of HeaderAdd: appending under the name as the producer spelled it.
HeaderAddRaw(H, key, value) ==
  IF key \in DOMAIN H
    THEN [H EXCEPT ![key] = Append(@, value)]
    ELSE [x \in DOMAIN H \cup {key} |-> IF x = key THEN <<value>> ELSE H[x]]

\* http.Header.Add: append value under the canonical form of key.
HeaderAdd(H, key, value) ==
  LET k == CanonicalMIMEHeaderKey(key) IN
  IF k \in DOMAIN H
    THEN [H EXCEPT ![k] = Append(@, value)]
    ELSE [x \in DOMAIN H \cup {k} |-> IF x = k THEN <<value>> ELSE H[x]]

\* type Response struct
Response(status, headers, body) ==
  [StatusCode |-> status, Headers |-> headers, Body |-> body]

\* Response{}: the zero value.
ZeroResponse == Response(0, NoHeaders, <<>>)

\* ------------------------------------------------------------------------
\* Producers supplied by the caller
\* ------------------------------------------------------------------------

\* The body of a producer that computes it from the request
\* (fmt.Sprintf("... %s ... %s", r.Method, r.URL.Path) in the tests).
Echo == <<"%s %s">>

\* Status codes the caller's producers return; 0 is the unset StatusCode.
Statuses == {0, 200, 405, 500}

\* A header map with one name holding two values.
TwoValues == [k \in {<<"x">>} |-> <<"a", "b">>]

\* type PresenterFunc func(*http.Request) Response: the functions the caller
\* wraps, each given by the Response it returns.
PresenterFuncs ==
  [kind : {"PresenterFunc"}, status : Statuses,
   headers : {NoHeaders, TwoValues}, body : Bodies \cup {Echo}]

\* PresenterFuncs with every http.Header of the model, as Writer serves them.
HeaderPresenterFuncs ==
  [kind : {"PresenterFunc"}, status : {0, 432},
   headers : HeaderMaps, body : {Echo}]

\* The Response the function wrapped by f computes for request r.
ResponseOf(f, r) ==
  Response(f.status, f.headers,
           IF f.body = Echo THEN <<r.Method, r.URL>> ELSE f.body)

\* type ErrPresenterFunc func(*http.Request) (Response, error): a function
\* returning a Response together with an error or nil.
ErrPresenterFuncs ==
  [kind : {"ErrPresenterFunc"}, status : Statuses,
   headers : {NoHeaders, TwoValues}, body : {<<>>, Echo},
   err : Errors \cup {Nil}]

\* The func(*http.Request, error) values a caller configures as callback.
Callbacks == {"logErr"}

\* ------------------------------------------------------------------------
\* Outcome of a call: a normal return, or a panic that unwinds the callers.
\* trace lists, in order, the caller-supplied functions that were invoked.
\* ------------------------------------------------------------------------

Event(op, arg, r, err) == [op |-> op, arg |-> arg, r |-> r, err |-> err]

Return(resp, err, trace) ==
  [panicked |-> FALSE, resp |-> resp, err |-> err, trace |-> trace]

Panic(trace) ==
  [panicked |-> TRUE, resp |-> ZeroResponse, err |-> Nil, trace |-> trace]

\* func (f PresenterFunc) PresentHTTP(r *http.Request) Response
PresenterFuncPresentHTTP(f, r) ==
  Return(ResponseOf(f, r), Nil, <<Event("PresenterFunc", f, r, Nil)>>)

\* Mutant of ErrPresenterFuncErrPresentHTTP: the adapter returns the
\* function's response and a nil error.
ErrPresenterFuncDropsError(f, r) ==
  Return(ResponseOf(f, r), Nil, <<Event("ErrPresenterFunc", f, r, Nil)>>)

\* func (f ErrPresenterFunc) ErrPresentHTTP(r *http.Request) (Response, error)
ErrPresenterFuncErrPresentHTTP(f, r) ==
  Return(ResponseOf(f, r), f.err, <<Event("ErrPresenterFunc", f, r, Nil)>>)

RECURSIVE PresentHTTP(_, _)

\* p.PresentHTTP(r) on an interface value p: a nil interface panics.
Invoke(p, r) == IF p = NilPresenter THEN Panic(<<>>) ELSE PresentHTTP(p, r)

\* e.ErrPresenter.ErrPresentHTTP(r)
InvokeErr(p, r) ==
  IF p = NilPresenter THEN Panic(<<>>) ELSE ErrPresenterFuncErrPresentHTTP(p, r)

\* Mutant of DefaultRespPresentHTTP: a response with a body also counts as
\* a response of the primary producer.
DefaultRespBodyCounts(d, r) ==
  LET resp == Invoke(d.Presenter, r) IN
  IF resp.panicked THEN resp
  ELSE IF resp.resp.StatusCode # 0 \/ Len(resp.resp.Body) > 0 THEN resp
  ELSE LET def == Invoke(d.DefaultPresenter, r) IN
       [def EXCEPT !.trace = resp.trace \o def.trace]

\* Mutant of DefaultRespPresentHTTP: the test of the status code is made on
\* the default's response too, and the primary's response is kept when the
\* default's StatusCode is 0 as well.
DefaultRespChecksBoth(d, r) ==
  LET resp == Invoke(d.Presenter, r) IN
  IF resp.panicked THEN resp
  ELSE IF resp.resp.StatusCode # 0 THEN resp
  ELSE LET def == Invoke(d.DefaultPresenter, r) IN
       IF ~def.panicked /\ def.resp.StatusCode = 0
         THEN [resp EXCEPT !.trace = resp.trace \o def.trace]
         ELSE [def EXCEPT !.trace = resp.trace \o def.trace]

\* Mutant of DefaultRespPresentHTTP: the default's response is fetched up
\* front, before the primary's status code is looked at.
DefaultRespEager(d, r) ==
  LET def == Invoke(d.DefaultPresenter, r) IN
  IF def.panicked THEN def
  ELSE LET resp == Invoke(d.Presenter, r) IN
       IF resp.panicked THEN [resp EXCEPT !.trace = def.trace \o resp.trace]
       ELSE IF resp.resp.StatusCode # 0
         THEN [resp EXCEPT !.trace = def.trace \o resp.trace]
       ELSE [def EXCEPT !.trace = def.trace \o resp.trace]

\* Mutant of DefaultRespPresentHTTP: the primary is asked once for the test
\* of the status code and once more for the response to return.
DefaultRespAsksTwice(d, r) ==
  LET resp == Invoke(d.Presenter, r) IN
  IF resp.panicked THEN resp
  ELSE IF resp.resp.StatusCode # 0
    THEN [resp EXCEPT !.trace = resp.trace \o resp.trace]
  ELSE LET def == Invoke(d.DefaultPresenter, r) IN
       [def EXCEPT !.trace = resp.trace \o def.trace]

\* func (d DefaultResp) PresentHTTP(r *http.Request) Response
DefaultRespPresentHTTP(d, r) ==
  LET resp == Invoke(d.Presenter, r) IN
  IF resp.panicked THEN resp
  ELSE IF resp.resp.StatusCode # 0 THEN resp
  ELSE LET def == Invoke(d.DefaultPresenter, r) IN
       [def EXCEPT !.trace = resp.trace \o def.trace]

\* strings.ToUpper on the methods of the model.
ToUpper == [m \in Methods |-> IF m = "get" THEN "GET" ELSE m]

\* Mutant of DispatcherPresentHTTP: the lookup ignores the case of the method.
DispatcherFoldCase(d, r) ==
  LET ok == ToUpper[r.Method] \in DOMAIN d.MethodToPresenter IN
  IF ~ok THEN Invoke(d.MethodNotSupportedPres, r)
  ELSE Invoke(d.MethodToPresenter[ToUpper[r.Method]], r)

\* Mutant of DispatcherPresentHTTP: the request is handed on with its method
\* in upper case.
DispatcherNormalisesMethod(d, r) ==
  LET upper == [r EXCEPT !.Method = ToUpper[@]]
      ok == r.Method \in DOMAIN d.MethodToPresenter
  IN
  IF ~ok THEN Invoke(d.MethodNotSupportedPres, upper)
  ELSE Invoke(d.MethodToPresenter[r.Method], upper)

\* Mutant of DispatcherPresentHTTP: the not-supported response is fetched up
\* front, before the lookup.
DispatcherEager(d, r) ==
  LET no == Invoke(d.MethodNotSupportedPres, r)
      ok == r.Method \in DOMAIN d.MethodToPresenter
  IN
  IF no.panicked \/ ~ok THEN no
  ELSE LET got == Invoke(d.MethodToPresenter[r.Method], r) IN
       [got EXCEPT !.trace = no.trace \o got.trace]

\* func (d Dispatcher) PresentHTTP(r *http.Request) Response
DispatcherPresentHTTP(d, r) ==
  LET ok == r.Method \in DOMAIN d.MethodToPresenter IN
  IF ~ok THEN Invoke(d.MethodNotSupportedPres, r)
  ELSE Invoke(d.MethodToPresenter[r.Method], r)

\* Mutant of ErrHandlerPresentHTTP: the callback runs only for an error
\* that came without a status code.
ErrHandlerCallOnZeroStatus(e, r) ==
  LET got == InvokeErr(e.ErrPresenter, r) IN
  IF got.panicked THEN got
  ELSE IF got.err # Nil /\ got.resp.StatusCode = 0
    THEN IF e.OnErrFn = Nil
           THEN Panic(got.trace)
           ELSE Return(got.resp, Nil,
                       Append(got.trace, Event("OnErrFn", e.OnErrFn, r, got.err)))
    ELSE Return(got.resp, Nil, got.trace)

\* Mutant of ErrHandlerPresentHTTP: an error discards the producer's response.
ErrHandlerErrReplaces(e, r) ==
  LET got == InvokeErr(e.ErrPresenter, r) IN
  IF got.panicked THEN got
  ELSE IF got.err # Nil
    THEN IF e.OnErrFn = Nil
           THEN Panic(got.trace)
           ELSE Return(ZeroResponse, Nil,
                       Append(got.trace, Event("OnErrFn", e.OnErrFn, r, got.err)))
    ELSE Return(got.resp, Nil, got.trace)

\* Mutant of ErrHandlerPresentHTTP: a response without status code is
\* turned into a 500.
ErrHandlerZeroTo500(e, r) ==
  LET got == InvokeErr(e.ErrPresenter, r)
      out == IF got.resp.StatusCode = 0
               THEN [got.resp EXCEPT !.StatusCode = 500] ELSE got.resp
  IN
  IF got.panicked THEN got
  ELSE IF got.err # Nil
    THEN IF e.OnErrFn = Nil
           THEN Panic(got.trace)
           ELSE Return(out, Nil,
                       Append(got.trace, Event("OnErrFn", e.OnErrFn, r, got.err)))
    ELSE Return(out, Nil, got.trace)

\* func (e ErrHandler) PresentHTTP(r *http.Request) Response
ErrHandlerPresentHTTP(e, r) ==
  LET got == InvokeErr(e.ErrPresenter, r) IN
  IF got.panicked THEN got
  ELSE IF got.err # Nil
    THEN IF e.OnErrFn = Nil
           THEN Panic(got.trace)
           ELSE Return(got.resp, Nil,
                       Append(got.trace, Event("OnErrFn", e.OnErrFn, r, got.err)))
    ELSE Return(got.resp, Nil, got.trace)

\* Dynamic dispatch of Presenter.PresentHTTP on the concrete type of p.
PresentHTTP(p, r) ==
  CASE p.kind = "PresenterFunc" -> PresenterFuncPresentHTTP(p, r)
    [] p.kind = "DefaultResp"   -> DefaultRespPresentHTTP(p, r)
    [] p.kind = "Dispatcher"    -> DispatcherPresentHTTP(p, r)
    [] p.kind = "ErrHandler"    -> ErrHandlerPresentHTTP(p, r)

\* ------------------------------------------------------------------------
\* Configured components
\* ------------------------------------------------------------------------

\* type DefaultResp struct { Presenter, DefaultPresenter Presenter }
DefaultResps ==
  [kind : {"DefaultResp"},
   Presenter : PresenterFuncs \cup {NilPresenter},
   DefaultPresenter : PresenterFuncs \cup {NilPresenter}]

\* The producers a Dispatcher is configured with.
DispatchPresenters ==
  {p \in PresenterFuncs : p.headers = NoHeaders /\ p.body = Echo}

\* type Dispatcher struct { MethodToPresenter map[string]Presenter;
\*                          MethodNotSupportedPres Presenter }
Dispatchers ==
  [kind : {"Dispatcher"},
   MethodToPresenter :
     UNION {[S -> DispatchPresenters] : S \in SUBSET Methods},
   MethodNotSupportedPres : DispatchPresenters \cup {NilPresenter}]

\* The fallback producers the tests hand to an ErrHandler.
FallbackPresenters ==
  {p \in PresenterFuncs : p.headers = NoHeaders /\ p.body = <<"h", "i">>}

\* type ErrHandler struct { ErrPresenter ErrPresenter;
\*                          OnErrFn func(*http.Request, error) }
\* DefaultPres is the fallback producer TestErrHandler configures on the
\* ErrHandler; type ErrHandler declares no such field and PresentHTTP reads
\* none.
ErrHandlers ==
  [kind : {"ErrHandler"},
   ErrPresenter : ErrPresenterFuncs,
   OnErrFn : Callbacks \cup {Nil},
   DefaultPres : FallbackPresenters \cup {NilPresenter}]

\* The producer newHandler sets as the Dispatcher's MethodNotSupportedPres:
\* http.StatusMethodNotAllowed and a body computed from the request.
MethodNotAllowedPresenter ==
  [kind |-> "PresenterFunc", status |-> 405, headers |-> NoHeaders, body |-> Echo]

\* The producer newHandler sets as the DefaultResp's DefaultPresenter:
\* http.StatusInternalServerError and a fixed body.
InternalServerErrorPresenter ==
  [kind |-> "PresenterFunc", status |-> 500, headers |-> NoHeaders,
   body |-> <<"h", "i">>]

\* The fallible producers given to newHandler: any status, with or without a
\* body, with or without an error.
HandlerErrPresenters ==
  {f \in ErrPresenterFuncs : f.headers = NoHeaders /\ f.err \in {Nil, "boom"}}

\* The methods a handler built by newHandler may support.
HandlerMethods == {"GET", "POST"}

\* func newHandler(mthdToErrPres map[string]httphandler.ErrPresenter) http.Handler
\* every fallible producer is wrapped in an ErrHandler with the logging
\* callback, the ErrHandlers are put under a Dispatcher, the Dispatcher under
\* a DefaultResp, and the DefaultResp under a Writer.
NewHandler(mthdToErrPres, fn) ==
  LET methodToPresenter ==
        [method \in DOMAIN mthdToErrPres |->
           [kind |-> "ErrHandler",
            ErrPresenter |-> mthdToErrPres[method],
            OnErrFn |-> "logErr",
            DefaultPres |-> NilPresenter]]
      dispatcher ==
        [kind |-> "Dispatcher",
         MethodToPresenter |-> methodToPresenter,
         MethodNotSupportedPres |-> MethodNotAllowedPresenter]
      defaultResp ==
        [kind |-> "DefaultResp",
         Presenter |-> dispatcher,
         DefaultPresenter |-> InternalServerErrorPresenter]
  IN [kind |-> "Writer", Presenter |-> defaultResp, WriteFailedFn |-> fn]

\* The handlers of the examples: newHandler on every mapping of some of the
\* methods to fallible producers, with and without a write-failure callback.
Handlers ==
  {NewHandler(m, fn) :
     m \in UNION {[S -> HandlerErrPresenters] : S \in SUBSET HandlerMethods},
     fn \in Callbacks \cup {Nil}}

\* Writers whose producer is a DefaultResp over two functions: the primary
\* returns StatusCode 0 or 200 and a body computed from the request, the
\* default StatusCode 0 or 500 and a fixed body.
DefaultRespWriters ==
  [kind : {"Writer"},
   Presenter : {d \in DefaultResps :
                  /\ d.Presenter # NilPresenter
                  /\ d.DefaultPresenter # NilPresenter
                  /\ d.Presenter.status \in {0, 200}
                  /\ d.Presenter.headers = NoHeaders
                  /\ d.Presenter.body = Echo
                  /\ d.DefaultPresenter.status \in {0, 500}
                  /\ d.DefaultPresenter.headers = NoHeaders
                  /\ d.DefaultPresenter.body = <<"h", "i">>},
   WriteFailedFn : Callbacks \cup {Nil}]

\* Writers whose producer is an ErrHandler: the fallible producer's response
\* has headers and a body.
ErrWriters ==
  [kind : {"Writer"},
   Presenter : {e \in ErrHandlers : /\ e.ErrPresenter.headers = TwoValues
                                    /\ e.ErrPresenter.body = Echo
                                    /\ e.OnErrFn # Nil
                                    /\ e.DefaultPres = NilPresenter},
   WriteFailedFn : Callbacks \cup {Nil}]

\* type Writer struct { Presenter Presenter;
\*                      WriteFailedFn func(*http.Request, error) }
Writers ==
  [kind : {"Writer"},
   Presenter : HeaderPresenterFuncs \cup PresenterFuncs,
   WriteFailedFn : Callbacks \cup {Nil}]
    \cup Handlers \cup ErrWriters \cup DefaultRespWriters

\* ------------------------------------------------------------------------
\* The http.ResponseWriter handed to Writer.ServeHTTP
\* ------------------------------------------------------------------------

\* A ResponseWriter on which nothing has been set or written.
NewResponseWriter ==
  [Header |-> NoHeaders, wroteHeader |-> FALSE, Code |-> 0, Body |-> <<>>]

\* w.WriteHeader(code): commits the status code; only the first call counts.
WriteHeader(rw, code) ==
  IF rw.wroteHeader THEN rw
  ELSE [rw EXCEPT !.wroteHeader = TRUE, !.Code = code]

\* w.Write(b) that wrote the first n bytes of b; a Write before WriteHeader
\* commits status 200.
Write(rw, b, n) ==
  LET committed == WriteHeader(rw, StatusOK) IN
  [committed EXCEPT !.Body = @ \o SubSeq(b, 1, n)]

\* ------------------------------------------------------------------------
\* Writer.ServeHTTP, statement by statement
\* ------------------------------------------------------------------------

\* Mutant of ProducerKeeps: the Response is shared with its producer, which
\* sees the status code the Writer assigned.
ProducerSeesStatus(held, local) == [held EXCEPT !.StatusCode = local.StatusCode]

\* resp := h.Presenter.PresentHTTP(r) makes resp a Response value of the
\* Writer's own (type Response is a struct, returned by value): after an
\* assignment to a field of the local resp, the Response held by the
\* producer is what it was.
ProducerKeeps(held, local) == held

\* Mutant of ResolveStatus: the status code is written as the producer left it.
ResolveStatusKeepsZero(resp) == resp

\* if resp.StatusCode == 0 { resp.StatusCode = 200 }
ResolveStatus(resp) ==
  IF resp.StatusCode = 0 THEN [resp EXCEPT !.StatusCode = StatusOK] ELSE resp

\* Mutant of AfterWrite: the callback runs after every Write.
AfterWriteAlways(h, r, err) ==
  IF h.WriteFailedFn = Nil
    THEN Panic(<<>>)
    ELSE Return(ZeroResponse, Nil,
                <<Event("WriteFailedFn", h.WriteFailedFn, r, err)>>)

\* if _, err := w.Write(resp.Body); err != nil { h.WriteFailedFn(r, err) }
\* what follows the Write that returned err: nothing, the callback, or the
\* panic of calling a nil func.
AfterWrite(h, r, err) ==
  IF err # Nil
    THEN IF h.WriteFailedFn = Nil
           THEN Panic(<<>>)
           ELSE Return(ZeroResponse, Nil,
                       <<Event("WriteFailedFn", h.WriteFailedFn, r, err)>>)
    ELSE Return(ZeroResponse, Nil, <<>>)

\* The number of ServeHTTP calls that run concurrently.
NumCalls == 2

\* The concurrent calls of ServeHTTP: net/http serves each request on a
\* goroutine of its own, with a ResponseWriter of its own.
Calls == 1..NumCalls

VARIABLES
  sut,     \* the configured component that is called
  pc,      \* where the current call stands
  req,     \* the request of the current call
  result,  \* what the last Presenter call returned
  resp,    \* Writer.ServeHTTP's local resp
  todo,    \* header names the range over resp.Headers has not finished
  iter,    \* the header name being ranged and the index of its next value
  w,       \* the ResponseWriter of the current serve
  werr,    \* the error the body Write returned
  trace,   \* caller functions invoked, WriteHeader and Write calls, in order
  last,    \* the request and the outcome of the Presenter call before this one
  serves   \* the locals of each of the ServeHTTP calls that run concurrently

vars == <<sut, pc, req, result, resp, todo, iter, w, werr, trace, last, serves>>

\* No request served yet.
NoRequest == [Method |-> "", URL |-> ""]

\* No header name is being ranged.
NoIter == [name |-> <<>>, next |-> 1]

\* What a caller has from a call of PresentHTTP: the request it passed, and
\* the response it got or the panic.
Outcome(r, out) == [req |-> r, panicked |-> out.panicked, resp |-> out.resp]

\* No call of PresentHTTP was made before.
NoCall == Outcome(NoRequest, Panic(<<>>))

\* The locals of a ServeHTTP call that has not started.
NoServe ==
  [pc |-> "idle", req |-> NoRequest, resp |-> ZeroResponse, todo |-> {},
   iter |-> NoIter, w |-> NewResponseWriter, werr |-> Nil, trace |-> <<>>]

Components ==
  DefaultResps \cup Dispatchers \cup ErrHandlers \cup Writers
    \cup PresenterFuncs \cup ErrPresenterFuncs

Init ==
  /\ sut \in Components
  /\ pc = "idle"
  /\ req = NoRequest
  /\ result = Panic(<<>>)
  /\ resp = ZeroResponse
  /\ todo = {}
  /\ iter = NoIter
  /\ w = NewResponseWriter
  /\ werr = Nil
  /\ trace = <<>>
  /\ last = NoCall
  /\ serves = [c \in Calls |-> NoServe]

\* Mutant of Called: the Dispatcher drops the entry of its mapping that it
\* has just used.
CalledConsumesEntry(r, out) ==
  /\ req' = r
  /\ result' = out
  /\ trace' = out.trace
  /\ pc' = IF out.panicked THEN "panicked" ELSE "returned"
  /\ sut' = IF sut.kind = "Dispatcher" /\ r.Method \in DOMAIN sut.MethodToPresenter
              THEN [sut EXCEPT !.MethodToPresenter =
                      [m \in DOMAIN @ \ {r.Method} |-> @[m]]]
              ELSE sut
  /\ UNCHANGED <<resp, todo, iter, w, werr, last, serves>>

\* A caller invokes PresentHTTP(r) on the component and gets out.
Called(r, out) ==
  /\ req' = r
  /\ result' = out
  /\ trace' = out.trace
  /\ pc' = IF out.panicked THEN "panicked" ELSE "returned"
  /\ UNCHANGED <<sut, resp, todo, iter, w, werr, last, serves>>

CallDefaultResp ==
  /\ pc = "idle"
  /\ sut.kind = "DefaultResp"
  /\ \E r \in Requests : Called(r, DefaultRespPresentHTTP(sut, r))

CallDispatcher ==
  /\ pc = "idle"
  /\ sut.kind = "Dispatcher"
  /\ \E r \in Requests : Called(r, DispatcherPresentHTTP(sut, r))

CallErrHandler ==
  /\ pc = "idle"
  /\ sut.kind = "ErrHandler"
  /\ \E r \in Requests : Called(r, ErrHandlerPresentHTTP(sut, r))

\* A caller invokes PresentHTTP(r) on a function turned into a Presenter.
CallPresenterFunc ==
  /\ pc = "idle"
  /\ sut.kind = "PresenterFunc"
  /\ \E r \in Requests : Called(r, PresenterFuncPresentHTTP(sut, r))

\* A caller invokes ErrPresentHTTP(r) on a function turned into an
\* ErrPresenter.
CallErrPresenterFunc ==
  /\ pc = "idle"
  /\ sut.kind = "ErrPresenterFunc"
  /\ \E r \in Requests : Called(r, ErrPresenterFuncErrPresentHTTP(sut, r))

\* Mutant of ServePresent: the Writer commits status 200 first and asks its
\* producer for the response after that.
ServePresentAfterCommit ==
  /\ pc = "idle"
  /\ sut.kind = "Writer"
  /\ \E r \in Requests :
       LET out == Invoke(sut.Presenter, r) IN
       /\ req' = r
       /\ result' = out
       /\ trace' = <<Event("WriteHeader", StatusOK, r, Nil)>> \o out.trace
       /\ resp' = out.resp
       /\ todo' = IF out.panicked THEN {} ELSE DOMAIN out.resp.Headers
       /\ pc' = IF out.panicked THEN "panicked" ELSE "headers"
  /\ iter' = NoIter
  /\ w' = WriteHeader(NewResponseWriter, StatusOK)
  /\ werr' = Nil
  /\ UNCHANGED <<sut, last, serves>>

\* resp := h.Presenter.PresentHTTP(r), on a fresh ResponseWriter
ServePresent ==
  /\ pc = "idle"
  /\ sut.kind = "Writer"
  /\ \E r \in Requests :
       LET out == Invoke(sut.Presenter, r) IN
       /\ req' = r
       /\ result' = out
       /\ trace' = out.trace
       /\ resp' = out.resp
       /\ todo' = IF out.panicked THEN {} ELSE DOMAIN out.resp.Headers
       /\ pc' = IF out.panicked THEN "panicked" ELSE "headers"
  /\ iter' = NoIter
  /\ w' = NewResponseWriter
  /\ werr' = Nil
  /\ UNCHANGED <<sut, last, serves>>

\* for header, values := range resp.Headers {
\*     for _, value := range values { w.Header().Add(header, value) } }
\* one iteration of the inner loop, or the passing of a name with no value;
\* the order in which range visits the names of a map is not fixed.
ServeAddHeader ==
  /\ pc = "headers"
  /\ \E header \in todo :
       /\ iter.name \in {<<>>, header}
       /\ LET values == resp.Headers[header]
              i == iter.next
          IN
          /\ IF i <= Len(values)
               THEN w' = [w EXCEPT !.Header = HeaderAdd(@, header, values[i])]
               ELSE UNCHANGED w
          /\ IF i >= Len(values)
               THEN /\ todo' = todo \ {header}
                    /\ iter' = NoIter
               ELSE /\ todo' = todo
                    /\ iter' = [name |-> header, next |-> i + 1]
  /\ UNCHANGED <<sut, pc, req, result, resp, werr, trace, last, serves>>

\* Mutant of ServeWriteHeader: the status code is committed while the range
\* over the headers may still be going on, and the rest of it is skipped.
ServeWriteHeaderEarly ==
  /\ pc = "headers"
  /\ resp' = ResolveStatus(resp)
  /\ w' = WriteHeader(w, resp'.StatusCode)
  /\ trace' = Append(trace, Event("WriteHeader", resp'.StatusCode, req, Nil))
  /\ pc' = "write"
  /\ result' = [result EXCEPT !.resp = ProducerKeeps(@, resp')]
  /\ UNCHANGED <<sut, req, todo, iter, werr, last, serves>>

\* if resp.StatusCode == 0 { resp.StatusCode = 200 }
\* w.WriteHeader(resp.StatusCode)
ServeWriteHeader ==
  /\ pc = "headers"
  /\ todo = {}
  /\ resp' = ResolveStatus(resp)
  /\ w' = WriteHeader(w, resp'.StatusCode)
  /\ trace' = Append(trace, Event("WriteHeader", resp'.StatusCode, req, Nil))
  /\ pc' = "write"
  /\ result' = [result EXCEPT !.resp = ProducerKeeps(@, resp')]
  /\ UNCHANGED <<sut, req, todo, iter, werr, last, serves>>

\* Mutant of ServeWrite: a first Write that fails is tried again.
ServeWriteRetries ==
  /\ pc = "write"
  /\ \E err \in Errors \cup {Nil} :
       \E n \in 0..Len(resp.Body) :
         /\ err = Nil => n = Len(resp.Body)
         /\ LET after == AfterWrite(sut, req, err)
                again == err # Nil /\ werr = Nil
            IN
            /\ w' = Write(w, resp.Body, n)
            /\ werr' = err
            /\ trace' = Append(trace, Event("Write", resp.Body, req, err))
                          \o (IF again THEN <<>> ELSE after.trace)
            /\ pc' = IF again THEN "write"
                     ELSE IF after.panicked THEN "panicked" ELSE "done"
  /\ UNCHANGED <<sut, req, result, resp, todo, iter, last, serves>>

\* if _, err := w.Write(resp.Body); err != nil { h.WriteFailedFn(r, err) }
\* the Write returns nil after writing all of the body, or an error after
\* writing some n bytes of it.
ServeWrite ==
  /\ pc = "write"
  /\ \E err \in Errors \cup {Nil} :
       \E n \in 0..Len(resp.Body) :
         /\ err = Nil => n = Len(resp.Body)
         /\ LET after == AfterWrite(sut, req, err) IN
            /\ w' = Write(w, resp.Body, n)
            /\ werr' = err
            /\ trace' = Append(trace, Event("Write", resp.Body, req, err))
                          \o after.trace
            /\ pc' = IF after.panicked THEN "panicked" ELSE "done"
  /\ UNCHANGED <<sut, req, result, resp, todo, iter, last, serves>>

\* The call is over and its locals are gone; the component, unchanged, takes
\* its next call. The caller of a Presenter keeps what the call gave it.
NextCall ==
  /\ pc \in {"returned", "done", "panicked"}
  /\ pc' = "idle"
  /\ req' = NoRequest
  /\ result' = Panic(<<>>)
  /\ resp' = ZeroResponse
  /\ todo' = {}
  /\ iter' = NoIter
  /\ w' = NewResponseWriter
  /\ werr' = Nil
  /\ trace' = <<>>
  /\ last' = IF sut.kind = "Writer" THEN last ELSE Outcome(req, result)
  /\ UNCHANGED <<sut, serves>>

Next ==
  \/ CallDefaultResp
  \/ CallDispatcher
  \/ CallErrHandler
  \/ CallPresenterFunc
  \/ CallErrPresenterFunc
  \/ ServePresent
  \/ ServeAddHeader
  \/ ServeWriteHeader
  \/ ServeWrite
  \/ NextCall

Spec == Init /\ [][Next]_vars

\* ------------------------------------------------------------------------
\* Concurrent calls of Writer.ServeHTTP on one handler
\* ------------------------------------------------------------------------

\* A Response with two names that have the same canonical form.
SameCanonical ==
  [k \in {<<"x">>, <<"X">>} |-> IF k = <<"x">> THEN <<"a">> ELSE <<"b", "c">>]

\* The producers under the handlers that are served concurrently: one whose
\* headers and body need several steps to write, one whose header names
\* collide, and the tree newHandler builds around a failing GET.
ConcPresenters ==
  {[kind |-> "PresenterFunc", status |-> 0, headers |-> TwoValues, body |-> Echo],
   [kind |-> "PresenterFunc", status |-> 432, headers |-> SameCanonical,
    body |-> Echo],
   NewHandler([m \in {"GET"} |->
                 [kind |-> "ErrPresenterFunc", status |-> 0, headers |-> NoHeaders,
                  body |-> <<>>, err |-> "boom"]], Nil).Presenter}

\* The handlers that are served concurrently.
ConcWriters ==
  [kind : {"Writer"}, Presenter : ConcPresenters, WriteFailedFn : Callbacks \cup {Nil}]

\* The requests of the concurrent calls.
ConcRequests == {r \in Requests : r.Method \in {"GET", "POST"}}

\* The variables of the one call at a time, which stay as they start.
single == <<pc, req, result, resp, todo, iter, w, werr, trace, last>>

InitConc ==
  /\ sut \in ConcWriters
  /\ pc = "idle"
  /\ req = NoRequest
  /\ result = Panic(<<>>)
  /\ resp = ZeroResponse
  /\ todo = {}
  /\ iter = NoIter
  /\ w = NewResponseWriter
  /\ werr = Nil
  /\ trace = <<>>
  /\ last = NoCall
  /\ serves = [c \in Calls |-> NoServe]

\* Call c: resp := h.Presenter.PresentHTTP(r), on its own ResponseWriter
ConcPresent(c) ==
  /\ serves[c].pc = "idle"
  /\ \E r \in ConcRequests :
       LET out == Invoke(sut.Presenter, r) IN
       serves' = [serves EXCEPT ![c] =
                    [pc |-> IF out.panicked THEN "panicked" ELSE "headers",
                     req |-> r,
                     resp |-> out.resp,
                     todo |-> IF out.panicked THEN {} ELSE DOMAIN out.resp.Headers,
                     iter |-> NoIter,
                     w |-> NewResponseWriter,
                     werr |-> Nil,
                     trace |-> out.trace]]
  /\ UNCHANGED <<sut, single>>

\* Mutant of ConcAddHeader: each iteration adds some value of the header,
\* not the one whose turn it is.
ConcAddHeaderAnyValue(c) ==
  /\ serves[c].pc = "headers"
  /\ \E header \in serves[c].todo :
       /\ serves[c].iter.name \in {<<>>, header}
       /\ LET values == serves[c].resp.Headers[header]
              i == serves[c].iter.next
          IN
          \E j \in 1..Len(values) :
            serves' = [serves EXCEPT
              ![c].w = IF i <= Len(values)
                         THEN [@ EXCEPT !.Header = HeaderAdd(@, header, values[j])]
                         ELSE @,
              ![c].todo = IF i >= Len(values) THEN @ \ {header} ELSE @,
              ![c].iter = IF i >= Len(values)
                            THEN NoIter
                            ELSE [name |-> header, next |-> i + 1]]
  /\ UNCHANGED <<sut, single>>

\* Call c: one iteration of the range over resp.Headers
ConcAddHeader(c) ==
  /\ serves[c].pc = "headers"
  /\ \E header \in serves[c].todo :
       /\ serves[c].iter.name \in {<<>>, header}
       /\ LET values == serves[c].resp.Headers[header]
              i == serves[c].iter.next
          IN
          serves' = [serves EXCEPT
            ![c].w = IF i <= Len(values)
                       THEN [@ EXCEPT !.Header = HeaderAdd(@, header, values[i])]
                       ELSE @,
            ![c].todo = IF i >= Len(values) THEN @ \ {header} ELSE @,
            ![c].iter = IF i >= Len(values)
                          THEN NoIter
                          ELSE [name |-> header, next |-> i + 1]]
  /\ UNCHANGED <<sut, single>>

\* Call c: if resp.StatusCode == 0 { resp.StatusCode = 200 }
\*         w.WriteHeader(resp.StatusCode)
ConcWriteHeader(c) ==
  /\ serves[c].pc = "headers"
  /\ serves[c].todo = {}
  /\ LET resolved == ResolveStatus(serves[c].resp) IN
     serves' = [serves EXCEPT
       ![c].resp = resolved,
       ![c].w = WriteHeader(@, resolved.StatusCode),
       ![c].trace = Append(@, Event("WriteHeader", resolved.StatusCode,
                                    serves[c].req, Nil)),
       ![c].pc = "write"]
  /\ UNCHANGED <<sut, single>>

\* Mutant of ConcWrite: resp is kept where all calls see it, and the body
\* written is that of whichever call stored its resp last.
ConcWriteSharedResp(c) ==
  /\ serves[c].pc = "write"
  /\ \E d \in Calls :
       /\ serves[d].pc \in {"headers", "write", "done"}
       /\ serves' = [serves EXCEPT
            ![c].w = Write(@, serves[d].resp.Body, Len(serves[d].resp.Body)),
            ![c].trace = Append(@, Event("Write", serves[d].resp.Body,
                                         serves[c].req, Nil)),
            ![c].pc = "done"]
  /\ UNCHANGED <<sut, single>>

\* Call c: if _, err := w.Write(resp.Body); err != nil { h.WriteFailedFn(r, err) }
ConcWrite(c) ==
  /\ serves[c].pc = "write"
  /\ \E err \in Errors \cup {Nil} :
       \E n \in 0..Len(serves[c].resp.Body) :
         /\ err = Nil => n = Len(serves[c].resp.Body)
         /\ LET after == AfterWrite(sut, serves[c].req, err) IN
            serves' = [serves EXCEPT
              ![c].w = Write(@, serves[c].resp.Body, n),
              ![c].werr = err,
              ![c].trace = Append(@, Event("Write", serves[c].resp.Body,
                                           serves[c].req, err)) \o after.trace,
              ![c].pc = IF after.panicked THEN "panicked" ELSE "done"]
  /\ UNCHANGED <<sut, single>>

\* The next statement of call c.
ConcStep(c) ==
  \/ ConcPresent(c)
  \/ ConcAddHeader(c)
  \/ ConcWriteHeader(c)
  \/ ConcWrite(c)

NextConc ==
  \/ \E c \in Calls : ConcPresent(c)
  \/ \E c \in Calls : ConcAddHeader(c)
  \/ \E c \in Calls : ConcWriteHeader(c)
  \/ \E c \in Calls : ConcWrite(c)

SpecConc == InitConc /\ [][NextConc]_vars

\* ------------------------------------------------------------------------
\* Properties
\* ------------------------------------------------------------------------

\* A direct PresentHTTP call on a component of the given kind is over.
CallOver(kind) == sut.kind = kind /\ pc \in {"returned", "panicked"}

\* The invocations of the callback op recorded in the current call.
CallsOf(op) == SelectSeq(trace, LAMBDA e : e.op = op)

C2_DispatcherRoutes ==
  CallOver("Dispatcher") =>
    LET chosen == IF req.Method \in DOMAIN sut.MethodToPresenter
                    THEN sut.MethodToPresenter[req.Method]
                    ELSE sut.MethodNotSupportedPres
    IN chosen # NilPresenter =>
         /\ ~result.panicked
         /\ result.resp = ResponseOf(chosen, req)

\* A POST on a mapping with the single key GET got the 405 of the
\* not-supported producer, not the 200 of the GET entry.
C2_Witness ==
  /\ CallOver("Dispatcher")
  /\ DOMAIN sut.MethodToPresenter = {"GET"}
  /\ sut.MethodToPresenter["GET"].status = 200
  /\ req.Method = "POST"
  /\ sut.MethodNotSupportedPres # NilPresenter
  /\ ~result.panicked
  /\ result.resp = Response(405, NoHeaders, <<"POST", "/a">>)

\* C3: ErrHandler.PresentHTTP with a callback configured invokes it never
\* when the ErrPresenter returns no error and exactly once, with the request
\* of the call and the error the ErrPresenter returned, when it returns one.
C3_OnErrFnOncePerError ==
  (CallOver("ErrHandler") /\ sut.OnErrFn # Nil) =>
    /\ ~result.panicked
    /\ CallsOf("OnErrFn") =
         IF sut.ErrPresenter.err = Nil
           THEN <<>>
           ELSE <<Event("OnErrFn", sut.OnErrFn, req, sut.ErrPresenter.err)>>

\* An ErrPresenter returned a 500 together with "boom" and the callback got
\* that error.
C3_Witness ==
  /\ CallOver("ErrHandler")
  /\ sut.OnErrFn # Nil
  /\ sut.ErrPresenter.err = "boom"
  /\ sut.ErrPresenter.status = 500
  /\ req.Method = "GET"
  /\ Len(CallsOf("OnErrFn")) = 1
  /\ CallsOf("OnErrFn")[1].err = "boom"
  /\ CallsOf("OnErrFn")[1].r = req

C5_FallbackOnZeroStatusError ==
  (/\ CallOver("ErrHandler")
   /\ sut.OnErrFn # Nil
   /\ sut.ErrPresenter.status = 0
   /\ sut.ErrPresenter.err # Nil
   /\ sut.DefaultPres # NilPresenter) =>
    /\ ~result.panicked
    /\ CallsOf("OnErrFn") =
         <<Event("OnErrFn", sut.OnErrFn, req, sut.ErrPresenter.err)>>
    /\ result.resp = ResponseOf(sut.DefaultPres, req)

\* C6: when the ErrPresenter's response has StatusCode 0 and no fallback
\* producer is configured, ErrHandler.PresentHTTP returns that response
\* unchanged (status 0, headers, body), with an error and without one.
C6_ZeroStatusPropagates ==
  (/\ CallOver("ErrHandler")
   /\ sut.ErrPresenter.status = 0
   /\ sut.DefaultPres = NilPresenter) =>
    /\ sut.OnErrFn # Nil => ~result.panicked
    /\ ~result.panicked => result.resp = ResponseOf(sut.ErrPresenter, req)

\* A status-0 response with a body came back as it was, the error having
\* gone to the callback.
C6_Witness ==
  /\ CallOver("ErrHandler")
  /\ sut.ErrPresenter.status = 0
  /\ sut.ErrPresenter.err = "boom"
  /\ sut.ErrPresenter.body = Echo
  /\ sut.DefaultPres = NilPresenter
  /\ sut.OnErrFn # Nil
  /\ ~result.panicked
  /\ result.resp = Response(0, sut.ErrPresenter.headers, <<req.Method, req.URL>>)
  /\ Len(CallsOf("OnErrFn")) = 1

\* Writer.ServeHTTP has committed the status code of the current serve.
StatusCommitted == sut.kind = "Writer" /\ w.wroteHeader

\* Writer.ServeHTTP has made its body Write.
BodyWritten == StatusCommitted /\ Len(CallsOf("Write")) > 0

\* C7: the status code Writer.ServeHTTP commits is the response's StatusCode
\* when that is not 0 and 200 when it is 0, and the bytes it writes as the
\* body are the response's Body: the one Write gets exactly Body, and a Write
\* that succeeds leaves exactly Body on the ResponseWriter.
C7_StatusAndBodyServed ==
  /\ StatusCommitted =>
       w.Code = IF result.resp.StatusCode # 0 THEN result.resp.StatusCode ELSE 200
  /\ BodyWritten =>
       /\ CallsOf("Write") = <<Event("Write", result.resp.Body, req, werr)>>
       /\ werr = Nil => w.Body = result.resp.Body
  /\ (sut.kind = "Writer" /\ pc = "done") => BodyWritten

\* {0, "hi"} was served as 200 with body "hi".
C7_Witness ==
  /\ sut.kind = "Writer"
  /\ pc = "done"
  /\ werr = Nil
  /\ result.resp.StatusCode = 0
  /\ result.resp.Body = <<"h", "i">>
  /\ w.Code = 200
  /\ w.Body = <<"h", "i">>

\* values occurs in all as a block of consecutive elements.
IsBlockOf(values, all) ==
  \E i \in 0..(Len(all) - Len(values)) :
    SubSeq(all, i + 1, i + Len(values)) = values

\* The names of headers that carry a value and share the canonical form k.
NamesUnder(headers, k) ==
  {h \in DOMAIN headers : Len(headers[h]) > 0 /\ CanonicalMIMEHeaderKey(h) = k}

\* C8: after the headers are applied, the values a response header holds are
\* separate values of the ResponseWriter's header of that (canonical) name,
\* in the response's order and next to each other; where no other name of the
\* response has the same canonical form, they are all of its values.
C8_HeaderMultiplicity ==
  StatusCommitted =>
    \A header \in DOMAIN result.resp.Headers :
      LET values == result.resp.Headers[header]
          k == CanonicalMIMEHeaderKey(header)
      IN Len(values) > 0 =>
           /\ k \in DOMAIN w.Header
           /\ IsBlockOf(values, w.Header[k])
           /\ NamesUnder(result.resp.Headers, k) = {header} =>
                w.Header[k] = values

\* Header X of the response held [a, b] and the ResponseWriter has the two
\* values a, b under X.
C8_Witness ==
  /\ sut.kind = "Writer"
  /\ pc = "done"
  /\ DOMAIN result.resp.Headers = {<<"X">>}
  /\ result.resp.Headers[<<"X">>] = <<"a", "b">>
  /\ w.Header[<<"X">>] = <<"a", "b">>

\* How often v occurs in the sequence s.
Count(s, v) == Cardinality({i \in 1..Len(s) : s[i] = v})

\* The sum of f over the finite set S.
RECURSIVE Sum(_, _)
Sum(f, S) ==
  IF S = {} THEN 0
  ELSE LET x == CHOOSE y \in S : TRUE IN f[x] + Sum(f, S \ {x})

\* C9: after the headers are applied, the ResponseWriter's header has
\* exactly the canonical forms of the response's header names that carry a
\* value, and under each of them every name/value pair of the response as
\* often as the response has it: none left out, none added.
C9_CanonicalNamesAllPairs ==
  StatusCommitted =>
    LET headers == result.resp.Headers IN
    /\ DOMAIN w.Header =
         {CanonicalMIMEHeaderKey(h) : h \in {n \in DOMAIN headers : Len(headers[n]) > 0}}
    /\ \A k \in DOMAIN w.Header :
         \A i \in 1..Len(AllValues) :
           Count(w.Header[k], AllValues[i]) =
             Sum([h \in NamesUnder(headers, k) |-> Count(headers[h], AllValues[i])],
                 NamesUnder(headers, k))

\* A header the producer named "m-v", with three values, is on the
\* ResponseWriter under "M-V" with the three values.
C9_Witness ==
  /\ sut.kind = "Writer"
  /\ pc = "done"
  /\ <<"m", "-", "v">> \in DOMAIN result.resp.Headers
  /\ result.resp.Headers[<<"m", "-", "v">>] = <<"a", "b", "c">>
  /\ <<"M", "-", "V">> \in DOMAIN w.Header
  /\ w.Header[<<"M", "-", "V">>] = <<"a", "b", "c">>
  /\ <<"m", "-", "v">> \notin DOMAIN w.Header

\* C10: a Writer with a write-failure callback invokes it exactly when the
\* body Write returned an error: once, after that Write, with the request
\* served and the error the Write returned; never before the Write and never
\* after a Write that returned nil.
C10_WriteFailedFnIffError ==
  (sut.kind = "Writer" /\ sut.WriteFailedFn # Nil /\ pc # "idle") =>
    /\ BodyWritten => pc # "panicked"
    /\ CallsOf("WriteFailedFn") =
         IF pc = "done" /\ werr # Nil
           THEN <<Event("WriteFailedFn", sut.WriteFailedFn, req, werr)>>
           ELSE <<>>
    /\ Len(CallsOf("WriteFailedFn")) = 1 =>
         /\ trace[Len(trace)].op = "WriteFailedFn"
         /\ trace[Len(trace) - 1].op = "Write"
         /\ trace[Len(trace) - 1].err = werr

\* The body Write failed with "boom" and the callback got the request and
\* "boom".
C10_Witness ==
  /\ sut.kind = "Writer"
  /\ pc = "done"
  /\ werr = "boom"
  /\ sut.WriteFailedFn = "logErr"
  /\ CallsOf("WriteFailedFn") = <<Event("WriteFailedFn", "logErr", req, "boom")>>

\* C11: a Writer with no write-failure callback (nil) drops a failed body
\* Write silently: ServeHTTP returns normally and does not panic.
C11_NilWriteFailedFnDropsFailure ==
  (sut.kind = "Writer" /\ sut.WriteFailedFn = Nil /\ BodyWritten /\ werr # Nil) =>
    pc = "done"

\* C12: an ErrHandler with no error callback (nil) whose ErrPresenter
\* returns an error does not fault: PresentHTTP returns the response.
C12_NilOnErrFnIsNoOp ==
  (CallOver("ErrHandler") /\ sut.OnErrFn = Nil /\ sut.ErrPresenter.err # Nil) =>
    /\ ~result.panicked
    /\ result.resp = ResponseOf(sut.ErrPresenter, req)

\* Where op occurs in the trace of the current call.
PositionsOf(op) == {i \in 1..Len(trace) : trace[i].op = op}

\* In every state of a serve: while headers are being applied nothing is
\* committed or written; once the status is committed no header is left to
\* apply; WriteHeader is called at most once, and once before the body
\* Write, which comes before the write-failure callback.
ServeOrder ==
  sut.kind = "Writer" =>
    /\ pc = "headers" => ~w.wroteHeader /\ w.Body = <<>>
    /\ w.wroteHeader => todo = {} /\ iter = NoIter
    /\ Cardinality(PositionsOf("WriteHeader")) <= 1
    /\ Cardinality(PositionsOf("Write")) <= 1
    /\ \A i \in PositionsOf("Write") :
         /\ w.wroteHeader
         /\ \E j \in PositionsOf("WriteHeader") : j < i
    /\ \A i \in PositionsOf("WriteFailedFn") :
         /\ w.wroteHeader /\ todo = {}
         /\ \E j \in PositionsOf("Write") : j < i

\* In every step of a serve: the headers of the ResponseWriter change only
\* while no status is committed, and a committed status stays as it is.
ServeOrderStep ==
  (sut.kind = "Writer" /\ pc # "idle" /\ pc' # "idle") =>
    /\ w'.Header # w.Header => ~w.wroteHeader /\ ~w'.wroteHeader
    /\ w.wroteHeader => w'.wroteHeader /\ w'.Code = w.Code
    /\ w'.Body # w.Body => w.wroteHeader

\* C13: Writer.ServeHTTP applies all response headers before it commits the
\* status code, commits the status code exactly once, writes the body only
\* after that, and so runs the write-failure callback only after headers and
\* status are committed.
C13_ServeOrder == []ServeOrder /\ [][ServeOrderStep]_vars

\* A serve with two header values, a committed status and a failed Write
\* has run the callback last.
C13_Witness ==
  /\ sut.kind = "Writer"
  /\ pc = "done"
  /\ werr # Nil
  /\ DOMAIN w.Header # {}
  /\ Len(trace) >= 3
  /\ trace[Len(trace) - 2].op = "WriteHeader"
  /\ trace[Len(trace) - 1].op = "Write"
  /\ trace[Len(trace)].op = "WriteFailedFn"

\* C14: DefaultResp, Dispatcher and ErrHandler are idempotent: a call of
\* PresentHTTP with the request of the call before it, on the same
\* configuration, has the same outcome (the same status, headers and body);
\* no call leaves state behind that changes a later one.
C14_Idempotent ==
  (/\ sut.kind \in {"DefaultResp", "Dispatcher", "ErrHandler"}
   /\ pc \in {"returned", "panicked"}
   /\ last.req = req) =>
    Outcome(req, result) = last

\* A Dispatcher was asked twice for its mapped GET and answered the same
\* 200 both times.
C14_Witness ==
  /\ CallOver("Dispatcher")
  /\ req.Method = "GET"
  /\ "GET" \in DOMAIN sut.MethodToPresenter
  /\ sut.MethodNotSupportedPres # NilPresenter
  /\ sut.MethodToPresenter["GET"].status = 200
  /\ sut.MethodNotSupportedPres.status = 405
  /\ last.req = req
  /\ ~last.panicked
  /\ last.resp = Response(200, NoHeaders, <<"GET", "/a">>)
  /\ result.resp = last.resp

\* The producers invoked in the current call, in order.
Invoked == SelectSeq(trace, LAMBDA e : e.op \in {"PresenterFunc", "ErrPresenterFunc"})

\* The header map after header has been added with each of values in order.
RECURSIVE AddValues(_, _, _)
AddValues(H, header, values) ==
  IF values = <<>> THEN H
  ELSE AddValues(HeaderAdd(H, header, Head(values)), header, Tail(values))

\* The header maps a range over the names of headers can leave, starting
\* from H, when nothing else runs: one for each order of the names.
RECURSIVE RangeHeaders(_, _, _)
RangeHeaders(H, headers, names) ==
  IF names = {} THEN {H}
  ELSE UNION {RangeHeaders(AddValues(H, header, headers[header]), headers,
                           names \ {header}) : header \in names}

\* Call c has ended with, on its ResponseWriter and in its calls, what a
\* ServeHTTP of its request alone produces when its Write returns s.werr.
ServedAsAlone(c) ==
  LET s == serves[c]
      out == Invoke(sut.Presenter, s.req)
      resolved == ResolveStatus(out.resp)
  IN
  /\ s.w.wroteHeader
  /\ s.w.Code = resolved.StatusCode
  /\ s.w.Header \in RangeHeaders(NoHeaders, out.resp.Headers, DOMAIN out.resp.Headers)
  /\ s.w.Body = SubSeq(out.resp.Body, 1, Len(s.w.Body))
  /\ s.werr = Nil => s.w.Body = out.resp.Body
  /\ s.trace = out.trace
                 \o <<Event("WriteHeader", resolved.StatusCode, s.req, Nil),
                      Event("Write", out.resp.Body, s.req, s.werr)>>
                 \o AfterWrite(sut, s.req, s.werr).trace

\* C15: of the calls of Writer.ServeHTTP that run concurrently on one
\* handler, each with its own request and ResponseWriter, every one that has
\* ended left on its ResponseWriter exactly the headers, status and body
\* that serving its request alone produces, and made the calls that serving
\* it alone makes; and every one that has not ended can take its next step,
\* wherever the others stand.
C15_ConcurrentServesAsAlone ==
  \A c \in Calls :
    /\ serves[c].pc \in {"idle", "headers", "write"} => ENABLED ConcStep(c)
    /\ serves[c].pc \in {"done", "panicked"} => ServedAsAlone(c)

\* Two calls on one handler have ended, one for a GET and one for a POST,
\* each with headers and with its own body written in full.
C15_Witness ==
  /\ serves[1].pc = "done"
  /\ serves[2].pc = "done"
  /\ serves[1].req.Method = "GET"
  /\ serves[2].req.Method = "POST"
  /\ serves[1].w.Body = <<"GET", "/a">>
  /\ serves[2].w.Body = <<"POST", "/a">>
  /\ DOMAIN serves[1].w.Header # {}
  /\ serves[1].w.Header = serves[2].w.Header

\* C16: no component changes a Response another one produced: what a
\* DefaultResp, a Dispatcher or an ErrHandler returns, and what the Writer
\* got from its producer, is the Response of the producer invoked last, as
\* produced; it stays so while the Writer serves it, and the 200 the Writer
\* puts in place of a StatusCode 0 reaches its local resp and the wire only.
C16_ProducedResponseUntouched ==
  (pc # "idle" /\ ~result.panicked) =>
    /\ Len(Invoked) > 0
    /\ result.resp = ResponseOf(Invoked[Len(Invoked)].arg, req)
    /\ (StatusCommitted /\ result.resp.StatusCode = 0) =>
         /\ resp.StatusCode = StatusOK
         /\ w.Code = StatusOK
         /\ resp.Headers = result.resp.Headers
         /\ resp.Body = result.resp.Body

\* The Writer has served a producer's Response with StatusCode 0 as a 200,
\* and the producer's Response still has StatusCode 0.
C16_Witness ==
  /\ sut.kind = "Writer"
  /\ sut.Presenter.kind = "PresenterFunc"
  /\ pc = "done"
  /\ sut.Presenter.status = 0
  /\ sut.Presenter.body = Echo
  /\ result.resp = Response(0, sut.Presenter.headers, <<req.Method, req.URL>>)
  /\ resp = Response(200, sut.Presenter.headers, <<req.Method, req.URL>>)
  /\ w.Code = 200

\* C17: the Dispatcher's lookup is by the exact method string: a request
\* whose method is no key of the mapping but differs from a key in letter
\* case only ("get" with a mapping that has "GET") goes to the not-supported
\* producer and to no entry of the mapping.
C17_LookupIsCaseSensitive ==
  (/\ CallOver("Dispatcher")
   /\ req.Method \notin DOMAIN sut.MethodToPresenter
   /\ ToUpper[req.Method] \in DOMAIN sut.MethodToPresenter
   /\ sut.MethodNotSupportedPres # NilPresenter) =>
    /\ ~result.panicked
    /\ Len(Invoked) = 1
    /\ Invoked[1].arg = sut.MethodNotSupportedPres
    /\ result.resp = ResponseOf(sut.MethodNotSupportedPres, req)

\* A "get" on the mapping with the single key "GET" (a 200) got the 405 of
\* the not-supported producer.
C17_Witness ==
  /\ CallOver("Dispatcher")
  /\ DOMAIN sut.MethodToPresenter = {"GET"}
  /\ sut.MethodToPresenter["GET"].status = 200
  /\ req.Method = "get"
  /\ sut.MethodNotSupportedPres # NilPresenter
  /\ sut.MethodNotSupportedPres.status = 405
  /\ result.resp = Response(405, NoHeaders, <<"get", "/a">>)

\* The component called is a handler composed as newHandler composes it:
\* Writer(DefaultResp(Dispatcher(method -> ErrHandler, not-supported), default)).
IsHandler ==
  /\ sut.kind = "Writer"
  /\ sut.Presenter.kind = "DefaultResp"
  /\ sut.Presenter.Presenter.kind = "Dispatcher"

\* The Dispatcher's mapping of a composed handler.
HandlerMapping == sut.Presenter.Presenter.MethodToPresenter

\* The request's method is one the composed handler supports.
Supported == req.Method \in DOMAIN HandlerMapping

\* What the fallible producer for the request's method returns.
OwnResponse == ResponseOf(HandlerMapping[req.Method].ErrPresenter, req)
OwnError == HandlerMapping[req.Method].ErrPresenter.err

\* The response a composed handler is to put on the wire for the request.
HandlerResponse ==
  IF ~Supported
    THEN ResponseOf(sut.Presenter.Presenter.MethodNotSupportedPres, req)
  ELSE IF OwnResponse.StatusCode # 0
    THEN OwnResponse
  ELSE ResponseOf(sut.Presenter.DefaultPresenter, req)

\* C18: a composed handler writes to the wire: the not-supported producer's
\* response when the request's method is not in the mapping; the fallible
\* producer's own response when its StatusCode is not 0, with an error or
\* without; the default producer's response when the fallible producer
\* returned StatusCode 0 (with an error, and without one as well).
C18_HandlerEndToEnd ==
  IsHandler =>
    /\ StatusCommitted =>
         /\ w.Code = HandlerResponse.StatusCode
         /\ w.Header = NoHeaders
    /\ BodyWritten =>
         /\ CallsOf("Write") = <<Event("Write", HandlerResponse.Body, req, werr)>>
         /\ werr = Nil => w.Body = HandlerResponse.Body

\* A handler whose POST producer returned an empty Response and an error
\* has served the default's 500 and body, and its GET producer's 405 with
\* an error was or would be served as it is.
C18_Witness ==
  /\ IsHandler
  /\ pc = "done"
  /\ werr = Nil
  /\ DOMAIN HandlerMapping = {"GET", "POST"}
  /\ req.Method = "POST"
  /\ OwnResponse = ZeroResponse
  /\ OwnError = "boom"
  /\ HandlerMapping["GET"].ErrPresenter.status = 405
  /\ HandlerMapping["GET"].ErrPresenter.err = "boom"
  /\ w.Code = 500
  /\ w.Body = <<"h", "i">>

\* C19: while and after a composed handler serves a request, the error
\* callback of its ErrHandlers has run exactly once, with the request and
\* the error, if the method is in the mapping and the fallible producer
\* returned an error, and not at all otherwise; the DefaultResp putting the
\* default's response in place neither suppresses nor repeats it.
C19_HandlerCallbackOnce ==
  (IsHandler /\ pc # "idle") =>
    CallsOf("OnErrFn") =
      IF Supported /\ OwnError # Nil
        THEN <<Event("OnErrFn", HandlerMapping[req.Method].OnErrFn, req, OwnError)>>
        ELSE <<>>

\* The callback ran once for an error that came with StatusCode 0, where
\* the default's 500 was served, and the handler has another method whose
\* producer returns an error with a 200.
C19_Witness ==
  /\ IsHandler
  /\ pc = "done"
  /\ DOMAIN HandlerMapping = {"GET", "POST"}
  /\ req.Method = "GET"
  /\ OwnResponse.StatusCode = 0
  /\ OwnError = "boom"
  /\ HandlerMapping["POST"].ErrPresenter.status = 200
  /\ HandlerMapping["POST"].ErrPresenter.err = "boom"
  /\ w.Code = 500
  /\ Len(CallsOf("OnErrFn")) = 1
  /\ Len(Invoked) = 2

\* The primary producer of a DefaultResp returned StatusCode 0 with a body,
\* and the default producer returns a 500.
JustBody ==
  /\ CallOver("DefaultResp")
  /\ sut.Presenter # NilPresenter
  /\ sut.DefaultPresenter # NilPresenter
  /\ ResponseOf(sut.Presenter, req).StatusCode = 0
  /\ Len(ResponseOf(sut.Presenter, req).Body) > 0
  /\ ResponseOf(sut.DefaultPresenter, req).StatusCode = 500

C21_AdaptersCallTheFunction ==
  /\ CallOver("PresenterFunc") =>
       /\ ~result.panicked
       /\ result.resp = ResponseOf(sut, req)
       /\ result.err = Nil
       /\ Invoked = <<Event("PresenterFunc", sut, req, Nil)>>
  /\ CallOver("ErrPresenterFunc") =>
       /\ ~result.panicked
       /\ result.resp = ResponseOf(sut, req)
       /\ result.err = sut.err
       /\ Invoked = <<Event("ErrPresenterFunc", sut, req, Nil)>>

\* An adapted fallible function returned a 405 with two header values, a
\* body computed from the POST and an error, and so did its adapter.
C21_Witness ==
  /\ CallOver("ErrPresenterFunc")
  /\ sut.status = 405
  /\ sut.headers = TwoValues
  /\ sut.body = Echo
  /\ sut.err = "bad"
  /\ req.Method = "POST"
  /\ result.resp = Response(405, TwoValues, <<"POST", "/a">>)
  /\ result.err = "bad"

\* C22: ErrHandler.PresentHTTP chooses the response by the status code
\* alone: when the ErrPresenter returned StatusCode 0 with no error and a
\* fallback producer is configured, the fallback producer is invoked and its
\* response returned, and the error callback is not invoked.
C22_FallbackOnZeroStatusNoError ==
  (/\ CallOver("ErrHandler")
   /\ sut.ErrPresenter.status = 0
   /\ sut.ErrPresenter.err = Nil
   /\ sut.DefaultPres # NilPresenter) =>
    /\ ~result.panicked
    /\ result.resp = ResponseOf(sut.DefaultPres, req)
    /\ Len(Invoked) = 2
    /\ Invoked[2].arg = sut.DefaultPres
    /\ CallsOf("OnErrFn") = <<>>

\* C23: DefaultResp.PresentHTTP invokes the primary producer exactly once,
\* and the default producer exactly once, after it, when the primary's
\* StatusCode is 0 and not at all when it is not 0; so with no default
\* producer (nil) the call returns whenever the primary's StatusCode is
\* not 0.
C23_DefaultRespInvocations ==
  (CallOver("DefaultResp") /\ sut.Presenter # NilPresenter) =>
    LET primary == Event("PresenterFunc", sut.Presenter, req, Nil) IN
    IF ResponseOf(sut.Presenter, req).StatusCode # 0
      THEN ~result.panicked /\ Invoked = <<primary>>
      ELSE sut.DefaultPresenter # NilPresenter =>
             /\ ~result.panicked
             /\ Invoked = <<primary, Event("PresenterFunc", sut.DefaultPresenter, req, Nil)>>

\* A DefaultResp with no default producer returned its primary's 405 after
\* one invocation.
C23_Witness ==
  /\ CallOver("DefaultResp")
  /\ sut.Presenter # NilPresenter
  /\ sut.DefaultPresenter = NilPresenter
  /\ sut.Presenter.status = 405
  /\ ~result.panicked
  /\ result.resp.StatusCode = 405
  /\ Len(Invoked) = 1

\* C24: Dispatcher.PresentHTTP invokes exactly one producer: the one mapped
\* to the request's method when there is one, also when no not-supported
\* producer is set (nil), and the not-supported producer alone otherwise.
C24_DispatcherInvokesOne ==
  CallOver("Dispatcher") =>
    IF req.Method \in DOMAIN sut.MethodToPresenter
      THEN /\ ~result.panicked
           /\ Invoked = <<Event("PresenterFunc", sut.MethodToPresenter[req.Method],
                                req, Nil)>>
      ELSE sut.MethodNotSupportedPres # NilPresenter =>
             /\ ~result.panicked
             /\ Invoked = <<Event("PresenterFunc", sut.MethodNotSupportedPres,
                                  req, Nil)>>

\* A Dispatcher with no not-supported producer returned the response of the
\* producer mapped to POST after one invocation; its GET producer was not
\* invoked.
C24_Witness ==
  /\ CallOver("Dispatcher")
  /\ sut.MethodNotSupportedPres = NilPresenter
  /\ DOMAIN sut.MethodToPresenter = {"GET", "POST"}
  /\ sut.MethodToPresenter["GET"] # sut.MethodToPresenter["POST"]
  /\ req.Method = "POST"
  /\ ~result.panicked
  /\ Len(Invoked) = 1
  /\ Invoked[1].arg = sut.MethodToPresenter["POST"]

\* In every state of a serve: the producers invoked are those of one
\* invocation of the Writer's producer, and once the serve is over or its
\* Write has failed there is one commit of the status code and one Write.
ServedOnce ==
  (sut.kind = "Writer" /\ pc # "idle" /\ ~result.panicked) =>
    /\ Invoked = SelectSeq(Invoke(sut.Presenter, req).trace,
                           LAMBDA e : e.op \in {"PresenterFunc", "ErrPresenterFunc"})
    /\ sut.Presenter.kind = "PresenterFunc" =>
         Invoked = <<Event("PresenterFunc", sut.Presenter, req, Nil)>>
    /\ Len(CallsOf("Write")) <= 1
    /\ (pc \in {"done", "panicked"} \/ werr # Nil) =>
         /\ Len(CallsOf("WriteHeader")) = 1
         /\ Len(CallsOf("Write")) = 1

\* In every step: a serve whose Write has failed does nothing more.
NothingAfterFailedWrite ==
  (sut.kind = "Writer" /\ werr # Nil) => pc' = "idle"

\* C25: Writer.ServeHTTP invokes its producer exactly once per serve and
\* makes exactly one body Write per serve; after a Write that failed it
\* does not write again, commits no other status code and does not invoke
\* the producer again.
C25_ServesOnce == []ServedOnce /\ [][NothingAfterFailedWrite]_vars

\* A serve is over after a Write that failed having written one byte of
\* two: one producer invocation, one commit, one Write.
C25_Witness ==
  /\ sut.kind = "Writer"
  /\ sut.Presenter.kind = "PresenterFunc"
  /\ pc = "done"
  /\ werr = "bad"
  /\ resp.Body = <<"h", "i">>
  /\ w.Body = <<"h">>
  /\ Len(Invoked) = 1
  /\ Len(CallsOf("WriteHeader")) = 1
  /\ Len(CallsOf("Write")) = 1

\* C26: Writer, DefaultResp, Dispatcher and ErrHandler hand the request they
\* were called with, as it is, to every producer and to every callback
\* (error callback, write-failure callback) they invoke.
C26_RequestPassedThrough ==
  pc # "idle" =>
    \A i \in 1..Len(trace) :
      trace[i].op \in {"PresenterFunc", "ErrPresenterFunc", "OnErrFn", "WriteFailedFn"}
        => trace[i].r = req

\* A composed handler served a "GET": the fallible producer, the error
\* callback, the default producer and, the Write having failed, the
\* write-failure callback all got that request.
C26_Witness ==
  /\ IsHandler
  /\ pc = "done"
  /\ req.Method = "GET"
  /\ werr = "boom"
  /\ sut.WriteFailedFn = "logErr"
  /\ Len(trace) = 6
  /\ trace[1].op = "ErrPresenterFunc" /\ trace[1].r = req
  /\ trace[2].op = "OnErrFn" /\ trace[2].r = req
  /\ trace[3].op = "PresenterFunc" /\ trace[3].r = req
  /\ trace[6].op = "WriteFailedFn" /\ trace[6].r = req

\* C27: the configuration is read-only: no call of PresentHTTP or ServeHTTP
\* changes a field of a component (the Dispatcher's mapping and
\* not-supported producer, the DefaultResp's two producers, the ErrHandler's
\* producer and callback, the Writer's producer and callback), so after any
\* sequence of calls each holds the value it had at construction.
C27_ConfigurationReadOnly == [][sut' = sut]_vars

\* A Dispatcher with both a mapping and a not-supported producer has
\* answered a mapped "GET" and then an unmapped "get".
C27_Witness ==
  /\ CallOver("Dispatcher")
  /\ DOMAIN sut.MethodToPresenter = {"GET"}
  /\ sut.MethodNotSupportedPres # NilPresenter
  /\ last.req.Method = "GET"
  /\ ~last.panicked
  /\ last.resp = ResponseOf(sut.MethodToPresenter["GET"], last.req)
  /\ req.Method = "get"
  /\ ~result.panicked

\* Calls c and d have applied all the headers of equal Responses, each to
\* its own ResponseWriter.
SameResponseApplied(c, d) ==
  /\ serves[c].pc \in {"write", "done"}
  /\ serves[d].pc \in {"write", "done"}
  /\ serves[c].req = serves[d].req

\* No two header names of the Response have the same canonical form.
NoSameCanonical(headers) ==
  \A h1, h2 \in DOMAIN headers :
    CanonicalMIMEHeaderKey(h1) = CanonicalMIMEHeaderKey(h2) => h1 = h2

\* C28 as claimed: serving equal Responses onto two fresh ResponseWriters
\* records equal headers (same names, same values, same order of the values
\* of a name), also when two header names of the Response differ in letter
\* case only.
C28_HeadersDeterministic ==
  \A c, d \in Calls :
    SameResponseApplied(c, d) => serves[c].w.Header = serves[d].w.Header

\* C28 as amended: serving equal Responses onto two fresh ResponseWriters
\* records the same names and under each name the same values, each as
\* often; the recorded headers are equal, order included, when no two
\* header names of the Response have the same canonical form.
C28_HeadersDeterministicUpToOrder ==
  \A c, d \in Calls :
    SameResponseApplied(c, d) =>
      LET H == serves[c].w.Header
          G == serves[d].w.Header
      IN
      /\ DOMAIN H = DOMAIN G
      /\ \A k \in DOMAIN H :
           /\ Len(H[k]) = Len(G[k])
           /\ \A i \in 1..Len(H[k]) : Count(H[k], H[k][i]) = Count(G[k], H[k][i])
      /\ NoSameCanonical(Invoke(sut.Presenter, serves[c].req).resp.Headers) => H = G

\* Two serves of the Response with the header names "x" and "X" are over:
\* one recorded the value of "x" first, the other last.
C28_Witness ==
  /\ SameResponseApplied(1, 2)
  /\ serves[1].pc = "done"
  /\ serves[2].pc = "done"
  /\ sut.Presenter.kind = "PresenterFunc"
  /\ sut.Presenter.headers = SameCanonical
  /\ serves[1].w.Header = [k \in {<<"X">>} |-> <<"a", "b", "c">>]
  /\ serves[2].w.Header = [k \in {<<"X">>} |-> <<"b", "c", "a">>]

\* The error callbacks that serving the request runs.
ErrorCallbacks == CallsOf("OnErrFn")

\* In every state of a serve: every error callback comes before the commit
\* of the status code, the Write and the write-failure callback, and once
\* anything is on the ResponseWriter all error callbacks of the request
\* have been made.
CallbackFirst ==
  (sut.kind = "Writer" /\ pc # "idle") =>
    /\ \A i \in PositionsOf("OnErrFn") :
         \A j \in PositionsOf("WriteHeader") \cup PositionsOf("Write")
                    \cup PositionsOf("WriteFailedFn") : i < j
    /\ w # NewResponseWriter =>
         ErrorCallbacks = SelectSeq(Invoke(sut.Presenter, req).trace,
                                    LAMBDA e : e.op = "OnErrFn")

\* In every step of a serve: a step that puts something on the
\* ResponseWriter (a header, the status code, the body) runs no error
\* callback.
NoCallbackWhileWriting ==
  (sut.kind = "Writer" /\ pc # "idle" /\ pc' # "idle" /\ w' # w) =>
    ErrorCallbacks' = ErrorCallbacks

\* C29: where a Writer wraps an ErrHandler, directly or through a
\* DefaultResp and a Dispatcher, the ErrHandler's error callback for a
\* request is invoked before anything of the response to that request is put
\* on the ResponseWriter: before any header is applied, the status code is
\* committed or the body is written.
C29_CallbackBeforeResponse == []CallbackFirst /\ [][NoCallbackWhileWriting]_vars

\* A Writer around an ErrHandler has the error callback made and nothing on
\* the ResponseWriter yet, with two header values to apply.
C29_Witness ==
  /\ sut.kind = "Writer"
  /\ sut.Presenter.kind = "ErrHandler"
  /\ pc = "headers"
  /\ w = NewResponseWriter
  /\ todo = {<<"x">>}
  /\ sut.Presenter.ErrPresenter.err = "boom"
  /\ sut.Presenter.ErrPresenter.status = 0
  /\ ErrorCallbacks = <<Event("OnErrFn", sut.Presenter.OnErrFn, req, "boom")>>
  /\ trace[Len(trace)].op = "OnErrFn"

\* d is a DefaultResp whose primary and default producer both return
\* StatusCode 0 for the request r.
BothZero(d, r) ==
  /\ d.kind = "DefaultResp"
  /\ d.Presenter # NilPresenter
  /\ d.DefaultPresenter # NilPresenter
  /\ d.Presenter.kind = "PresenterFunc"
  /\ ResponseOf(d.Presenter, r).StatusCode = 0
  /\ ResponseOf(d.DefaultPresenter, r).StatusCode = 0

\* C30: the DefaultResp tests the primary's status code only: when the
\* primary and the default producer both return StatusCode 0, it returns the
\* default's response as it is, StatusCode 0 included, and a Writer around
\* that DefaultResp commits status 200 and writes the default's body, not
\* the primary's.
C30_DefaultIsNotChecked ==
  /\ (CallOver("DefaultResp") /\ BothZero(sut, req)) =>
       /\ ~result.panicked
       /\ result.resp = ResponseOf(sut.DefaultPresenter, req)
       /\ result.resp.StatusCode = 0
  /\ (sut.kind = "Writer" /\ pc # "idle" /\ BothZero(sut.Presenter, req)) =>
       LET default == ResponseOf(sut.Presenter.DefaultPresenter, req) IN
       /\ result.resp = default
       /\ StatusCommitted => w.Code = StatusOK
       /\ BodyWritten =>
            /\ CallsOf("Write") = <<Event("Write", default.Body, req, werr)>>
            /\ werr = Nil => w.Body = default.Body

\* A Writer around a DefaultResp whose two producers returned StatusCode 0
\* has served a 200 with the default's body, which is not the primary's.
C30_Witness ==
  /\ sut.kind = "Writer"
  /\ pc = "done"
  /\ werr = Nil
  /\ BothZero(sut.Presenter, req)
  /\ ResponseOf(sut.Presenter.Presenter, req).Body = <<req.Method, req.URL>>
  /\ ResponseOf(sut.Presenter.DefaultPresenter, req).Body = <<"h", "i">>
  /\ w.Code = 200
  /\ w.Body = <<"h", "i">>

====
